---------------------------- MODULE Spec2Model ----------------------------
(***************************************************************************)
(* Model of draf's CaseStudy (src/draf/core/case_study.py): the scenario   *)
(* registry `scens`, scenario derivation (add_scen), the combinatorial     *)
(* sweep (add_scens), the two-point Pareto normalisation                   *)
(* (improve_pareto_norm_factors), batch runs (set_model, optimize), the    *)
(* views valid_scens / ordered_valid_scens / pareto, import_scens, and     *)
(* CsPlotter.pareto_table (src/draf/plotting/cs_plotting.py).              *)
(*                                                                         *)
(* Scenario objects live in a heap (address -> object) so that sharing of  *)
(* one object between registries (import_scens) is expressible; a list of  *)
(* axes that the caller keeps (my_vars) is state as well, since add_scens  *)
(* appends to the list it is given.  The                                   *)
(* classes Scenario and Scenarios are not part of the analysed sources;    *)
(* their operations are modelled from the specification (section 3, 4.1,   *)
(* 4.2, 4.3) and are marked as such in the model map.                      *)
(***************************************************************************)
EXTENDS Integers, Sequences, FiniteSets, TLC

VARIABLES
    scens,   \* self.scens: the registry, a sequence of <<id, address>> in insertion order
    other,   \* other_cs.scens: the registry of a second case study (source of import_scens)
    heap,    \* address -> Scenario object
    last,    \* the last call made on the case study: operation, arguments, outcome
    pre,     \* registry and heap as they were before the last call
    nops,    \* number of calls made so far
    cs_scen_vars,   \* the attribute scen_vars of the case study
    cs_scen_df,     \* the attribute scen_df of the case study
    my_vars         \* a list of axes that the caller keeps and passes to add_scens

vars == <<scens, other, heap, last, pre, nops, cs_scen_vars, cs_scen_df, my_vars>>

(***************************************************************************)
(* Bounds of the model.                                                    *)
(***************************************************************************)
MaxOps == 3
MaxScens == 4

(***************************************************************************)
(* Values.  A sweep value is a number or a string; numbers are kept as     *)
(* reduced fractions so that 1e3 / mean(...) is exact.                     *)
(***************************************************************************)
None == "<None>"

RECURSIVE Gcd(_, _)
Gcd(a, b) == IF b = 0 THEN a ELSE Gcd(b, a % b)

\* a float, an int, a str
Frac(n, d) == LET g == Gcd(n, d) IN [t |-> "float", n |-> n \div g, d |-> d \div g, s |-> ""]
NumV(i) == [t |-> "num", n |-> i, d |-> 1, s |-> ""]
StrV(str) == [t |-> "str", n |-> 0, d |-> 1, s |-> str]

\* isinstance(value, str)
IsStr(value) == value.t = "str"
IsFloat(value) == value.t = "float"

\* float(value) of a number
to_float(value) == IF IsStr(value) THEN value ELSE Frac(value.n, value.d)

\* the digits of r / d behind the decimal point, at most k of them
RECURSIVE Decimals(_, _, _)
Decimals(r, d, k) ==
    IF r = 0 \/ k = 0 THEN ""
    ELSE ToString((10 * r) \div d) \o Decimals((10 * r) % d, d, k - 1)

\* str(value), as used for names and docs: "flat", "10", "0.0", "0.5"
Str(value) ==
    IF IsStr(value) THEN value.s
    ELSE IF ~IsFloat(value) THEN ToString(value.n)
    ELSE ToString(value.n \div value.d) \o "."
         \o (IF value.n % value.d = 0 THEN "0" ELSE Decimals(value.n % value.d, value.d, 16))

(***************************************************************************)
(* Scenario objects.                                                       *)
(***************************************************************************)
NoRes == [has |-> FALSE, C_TOT_ |-> 0, CE_TOT_ |-> 0]
Res(c, ce) == [has |-> TRUE, C_TOT_ |-> c, CE_TOT_ |-> ce]

\* Scenario(id=..., name=..., doc=...): a scenario made from scratch
Scenario(id, name, doc) ==
    [id |-> id, name |-> name, doc |-> doc,
     params |-> <<>>,          \* sc.params: name -> value
     vars |-> <<>>,            \* sc.vars._meta: name -> [lb, ub]
     status |-> "NONE",        \* last solve status
     res |-> NoRes,            \* sc.res, present only after a successful solve
     solved |-> FALSE,         \* history: this object was solved successfully at least once
     parent |-> None]          \* history: id of the scenario this one was derived from

\* mapping[key] = value on a dict
Put(f, k, v) == [x \in (DOMAIN f) \cup {k} |-> IF x = k THEN v ELSE f[x]]

\* sc.update_params(**{name: value}) / sc.params.<name> = value
update_params(sc, name, value) == [sc EXCEPT !.params = Put(sc.params, name, value)]

\* sc.vars._meta[name]["lb"] = value; sc.vars._meta[name]["ub"] = value
fix_bounds(sc, name, value) == [sc EXCEPT !.vars = Put(sc.vars, name, [lb |-> value, ub |-> value])]

\* sc.get_entity(name): the current value of the entity, UnknownEntity when absent
has_entity(sc, name) == name \in DOMAIN sc.params
get_entity(sc, name) == sc.params[name]

\* sc._special_copy(): parameters and bound metadata by value, results and status reset
special_copy(sc) == [sc EXCEPT !.res = NoRes, !.status = "NONE", !.solved = FALSE, !.parent = sc.id]

(***************************************************************************)
(* The registry (class Scenarios): an insertion-ordered id -> object map.  *)
(***************************************************************************)
\* self.scens_ids
scens_ids(reg) == [i \in 1..Len(reg) |-> reg[i][1]]

IdSet(reg) == {reg[i][1] : i \in 1..Len(reg)}
HasId(reg, id) == id \in IdSet(reg)
IndexOf(reg, id) == CHOOSE i \in 1..Len(reg) : reg[i][1] = id

\* getattr(self.scens, id)
getattr_scens(reg, id) == reg[IndexOf(reg, id)][2]

\* setattr(self.scens, id, sc): a present id keeps its position and gets the new object
setattr_scens(reg, id, a) ==
    IF HasId(reg, id) THEN [reg EXCEPT ![IndexOf(reg, id)] = <<id, a>>]
    ELSE Append(reg, <<id, a>>)

\* delattr(self.scens, id)
delattr_scens(reg, id) ==
    LET k == IndexOf(reg, id)
    IN [i \in 1..(Len(reg) - 1) |-> IF i < k THEN reg[i] ELSE reg[i + 1]]

\* the object registered under id
Obj(reg, hp, id) == hp[getattr_scens(reg, id)]

\* self.scens_list, as objects
scens_list(reg, hp) == [i \in 1..Len(reg) |-> hp[reg[i][2]]]

Addrs(reg) == {reg[i][2] : i \in 1..Len(reg)}
FreshAddr(hp) == CHOOSE a \in 1..(Cardinality(DOMAIN hp) + 1) : a \notin DOMAIN hp

\* objects no registry refers to are dropped
Collect(reg, oth, hp) == [a \in (Addrs(reg) \cup Addrs(oth)) |-> hp[a]]

(***************************************************************************)
(* add_scen                                                                *)
(***************************************************************************)
Fail(reg, hp, err) == [ok |-> FALSE, err |-> err, reg |-> reg, heap |-> hp, addr |-> 0, id |-> None]

\* add_scen registering the based-on object itself instead of a copy of it
add_scen_shared(reg, hp, id0, name, doc0, based_on0, based_on_last) ==
    IF based_on_last /\ Len(reg) = 0 THEN Fail(reg, hp, "IndexError")
    ELSE
    LET based_on == IF based_on_last THEN scens_ids(reg)[Len(reg)] ELSE based_on0
        doc == IF based_on_last THEN based_on \o " + " \o doc0 ELSE doc0
        id == IF id0 = None THEN "sc" \o ToString(Len(reg)) ELSE id0
        a == FreshAddr(hp)
    IN  IF based_on = None
        THEN [ok |-> TRUE, err |-> "", addr |-> a, id |-> id,
              reg |-> setattr_scens(reg, id, a),
              heap |-> Put(hp, a, Scenario(id, name, doc))]
        ELSE IF ~HasId(reg, based_on) THEN Fail(reg, hp, "AttributeError")
        ELSE LET b == getattr_scens(reg, based_on)
             IN [ok |-> TRUE, err |-> "", addr |-> b, id |-> id,
                 reg |-> setattr_scens(reg, id, b),
                 heap |-> [hp EXCEPT ![b] = [@ EXCEPT !.id = id, !.name = name, !.doc = doc]]]

\* add_scen that leaves the copy with the id, name and doc of the scenario it was copied from
add_scen_parent_labels(reg, hp, id0, name, doc0, based_on0, based_on_last) ==
    IF based_on_last /\ Len(reg) = 0 THEN Fail(reg, hp, "IndexError")
    ELSE
    LET based_on == IF based_on_last THEN scens_ids(reg)[Len(reg)] ELSE based_on0
        doc == IF based_on_last THEN based_on \o " + " \o doc0 ELSE doc0
        id == IF id0 = None THEN "sc" \o ToString(Len(reg)) ELSE id0
        a == FreshAddr(hp)
    IN  IF based_on = None
        THEN [ok |-> TRUE, err |-> "", addr |-> a, id |-> id,
              reg |-> setattr_scens(reg, id, a),
              heap |-> Put(hp, a, Scenario(id, name, doc))]
        ELSE IF ~HasId(reg, based_on) THEN Fail(reg, hp, "AttributeError")
        ELSE [ok |-> TRUE, err |-> "", addr |-> a, id |-> id,
              reg |-> setattr_scens(reg, id, a),
              heap |-> Put(hp, a, special_copy(Obj(reg, hp, based_on)))]

add_scen(reg, hp, id0, name, doc0, based_on0, based_on_last) ==
    IF based_on_last /\ Len(reg) = 0 THEN Fail(reg, hp, "IndexError")
    ELSE
    LET based_on == IF based_on_last THEN scens_ids(reg)[Len(reg)] ELSE based_on0
        doc == IF based_on_last THEN based_on \o " + " \o doc0 ELSE doc0
        id == IF id0 = None THEN "sc" \o ToString(Len(reg)) ELSE id0
        a == FreshAddr(hp)
    IN  IF based_on = None
        THEN [ok |-> TRUE, err |-> "", addr |-> a, id |-> id,
              reg |-> setattr_scens(reg, id, a),
              heap |-> Put(hp, a, Scenario(id, name, doc))]
        ELSE IF ~HasId(reg, based_on) THEN Fail(reg, hp, "AttributeError")
        ELSE LET sc == [special_copy(Obj(reg, hp, based_on)) EXCEPT
                            !.id = id, !.name = name, !.doc = doc]
             IN [ok |-> TRUE, err |-> "", addr |-> a, id |-> id,
                 reg |-> setattr_scens(reg, id, a),
                 heap |-> Put(hp, a, sc)]

(***************************************************************************)
(* add_scens                                                               *)
(***************************************************************************)
\* scen_vars: None, or a list of axes (long name, short name, value list)
NoVars == [none |-> TRUE, axes |-> <<>>]
Vars(axes) == [none |-> FALSE, axes |-> axes]
Axis(long, short, values) == [long |-> long, short |-> short, values |-> values, arity |-> 3]
\* a tuple with two entries only, such as ("p", [1, 2])
AxisPair(long, values) == [long |-> long, short |-> None, values |-> values, arity |-> 2]

\* np.linspace(0, 1, n)
linspace01(n) == [i \in 1..n |-> IF n = 1 THEN Frac(0, 1) ELSE Frac(i - 1, n - 1)]

\* the weighting axis put in front of the caller's axes
effective_vars_alpha_first(scen_vars, nParetoPoints) ==
    LET sv == IF scen_vars.none /\ nParetoPoints > 0 THEN Vars(<<>>) ELSE scen_vars
    IN  IF nParetoPoints > 0
        THEN Vars(<<Axis("k_PTO_alpha_", "a", linspace01(nParetoPoints))>> \o sv.axes)
        ELSE sv

\* the axis list after lines 276-283
effective_vars(scen_vars, nParetoPoints) ==
    LET sv == IF scen_vars.none /\ nParetoPoints > 0 THEN Vars(<<>>) ELSE scen_vars
    IN  IF nParetoPoints > 0
        THEN Vars(Append(sv.axes, Axis("k_PTO_alpha_", "a", linspace01(nParetoPoints))))
        ELSE sv

\* line 287: names_long, names_short, value_lists = zip(*scen_vars) needs three tuples
can_unzip(axes) == Len(axes) > 0 /\ \A i \in 1..Len(axes) : axes[i].arity = 3

\* seqs[1] \o seqs[2] \o ...
RECURSIVE Flatten(_)
Flatten(seqs) == IF Len(seqs) = 0 THEN <<>> ELSE Head(seqs) \o Flatten(Tail(seqs))

\* pd.MultiIndex.from_product(value_lists): the first list varies slowest
RECURSIVE from_product(_)
from_product(value_lists) ==
    IF Len(value_lists) = 0 THEN << <<>> >>
    ELSE LET rest == from_product(Tail(value_lists))
             first == Head(value_lists)
         IN Flatten([i \in 1..Len(first) |->
                        [j \in 1..Len(rest) |-> <<first[i]>> \o rest[j]]])

\* the dtype of a frame that holds these entries: numbers only, one of them a float,
\* makes every entry a float; a frame with a string keeps each entry as it is
RECURSIVE Entries(_)
Entries(combos) ==
    IF Len(combos) = 0 THEN {}
    ELSE {Head(combos)[j] : j \in 1..Len(Head(combos))} \cup Entries(Tail(combos))

is_float_frame(combos) ==
    /\ \A v \in Entries(combos) : ~IsStr(v)
    /\ \E v \in Entries(combos) : IsFloat(v)

\* line 292: df.T
transpose_values(combos) ==
    IF is_float_frame(combos)
    THEN [i \in 1..Len(combos) |-> [j \in 1..Len(combos[i]) |-> to_float(combos[i][j])]]
    ELSE combos

\* sep.join(parts)
RECURSIVE Join(_, _)
Join(sep, parts) ==
    IF Len(parts) = 0 THEN ""
    ELSE IF Len(parts) = 1 THEN parts[1]
    ELSE parts[1] \o sep \o Join(sep, Tail(parts))

\* the index label of a combination: "_".join(short + str(value))
combo_name(axes, combo) == Join("_", [i \in 1..Len(axes) |-> axes[i].short \o Str(combo[i])])

\* the doc of a combination: "; ".join(f"{long}={value}")
combo_doc(axes, combo) == Join("; ", [i \in 1..Len(axes) |-> axes[i].long \o "=" \o Str(combo[i])])

\* lines 303-304: a string value names an entity of the derived scenario
can_resolve(sc, raw) == IsStr(raw) => has_entity(sc, raw.s)
\* the string stored as it is
resolve_value_literal(sc, raw) == raw
resolve_value(sc, raw) == IF IsStr(raw) THEN get_entity(sc, raw.s) ELSE raw

\* every entity treated as a parameter
apply_value_params_only(sc, ent_name, value) == update_params(sc, ent_name, value)

\* lines 306-313: variables get both bounds fixed, everything else is a parameter
apply_value(sc, ent_name, value) ==
    IF ent_name \in DOMAIN sc.vars THEN fix_bounds(sc, ent_name, value)
    ELSE update_params(sc, ent_name, value)

\* lines 302-313: the entries of one combination, in axis order
RECURSIVE apply_entities(_, _, _, _)
apply_entities(sc, axes, combo, i) ==
    IF i > Len(combo) THEN [ok |-> TRUE, sc |-> sc]
    ELSE IF ~can_resolve(sc, combo[i]) THEN [ok |-> FALSE, sc |-> sc]
    ELSE apply_entities(apply_value(sc, axes[i].long, resolve_value(sc, combo[i])),
                        axes, combo, i + 1)

\* lines 288-292: self.scen_df, one column per combination, labelled by its name
make_scen_df(axes) ==
    LET combos == transpose_values(from_product([i \in 1..Len(axes) |-> axes[i].values]))
    IN  [k \in 1..Len(combos) |-> [name |-> combo_name(axes, combos[k]), values |-> combos[k]]]

\* an attribute of the case study: absent until it is assigned
NoAttr == [set |-> FALSE, val |-> <<>>]
Attr(val) == [set |-> TRUE, val |-> val]

Created(id, a, combo) == [id |-> id, addr |-> a, combo |-> combo]

\* the sweep loop with timelog_params_ written into the base scenario before it is copied
RECURSIVE sweep_loop_marks_base(_, _, _, _, _, _, _)
sweep_loop_marks_base(reg, hp, axes, combos, k, based_on, created) ==
    IF k > Len(combos)
    THEN [err |-> "", reg |-> reg, heap |-> hp, created |-> created]
    ELSE
    LET hp0 == IF HasId(reg, based_on)
               THEN [hp EXCEPT ![getattr_scens(reg, based_on)] =
                                   update_params(@, "timelog_params_", NumV(0))]
               ELSE hp
        r == add_scen(reg, hp0, "sc" \o ToString(Len(reg)), combo_name(axes, combos[k]),
                      combo_doc(axes, combos[k]), based_on, FALSE)
    IN  IF ~r.ok THEN [err |-> r.err, reg |-> reg, heap |-> hp, created |-> created]
        ELSE
        LET ap == apply_entities(r.heap[r.addr], axes, combos[k], 1)
            hp2 == [r.heap EXCEPT ![r.addr] = ap.sc]
            cr == Append(created, Created(r.id, r.addr, combos[k]))
        IN  IF ~ap.ok
            THEN [err |-> "UnknownEntity", reg |-> r.reg, heap |-> hp2, created |-> cr]
            ELSE sweep_loop_marks_base(r.reg, hp2, axes, combos, k + 1, based_on, cr)

\* lines 294-313: one scenario per combination
RECURSIVE sweep_loop(_, _, _, _, _, _, _)
sweep_loop(reg, hp, axes, combos, k, based_on, created) ==
    IF k > Len(combos)
    THEN [err |-> "", reg |-> reg, heap |-> hp, created |-> created]
    ELSE
    LET r == add_scen(reg, hp, "sc" \o ToString(Len(reg)), combo_name(axes, combos[k]),
                      combo_doc(axes, combos[k]), based_on, FALSE)
    IN  IF ~r.ok THEN [err |-> r.err, reg |-> reg, heap |-> hp, created |-> created]
        ELSE
        LET sc0 == update_params(r.heap[r.addr], "timelog_params_", NumV(0))
            ap == apply_entities(sc0, axes, combos[k], 1)
            hp2 == [r.heap EXCEPT ![r.addr] = ap.sc]
            cr == Append(created, Created(r.id, r.addr, combos[k]))
        IN  IF ~ap.ok
            THEN [err |-> "UnknownEntity", reg |-> r.reg, heap |-> hp2, created |-> cr]
            ELSE sweep_loop(r.reg, hp2, axes, combos, k + 1, based_on, cr)

\* the attributes scen_vars and scen_df are assigned on the way (lines 285 and 292)
add_scens(reg, hp, scen_vars, nParetoPoints, del_REF, based_on) ==
    LET sv == effective_vars(scen_vars, nParetoPoints)
        unchanged == [reg |-> reg, heap |-> hp, created |-> <<>>,
                      scen_vars |-> Attr(sv), scen_df |-> NoAttr]
    IN  IF sv.none
        THEN [err |-> "TypeError"] @@ unchanged
        ELSE IF ~can_unzip(sv.axes)
        THEN [err |-> "ValueError"] @@ unchanged
        ELSE
        LET scen_df == make_scen_df(sv.axes)
            combos == [k \in 1..Len(scen_df) |-> scen_df[k].values]
            lp == sweep_loop(reg, hp, sv.axes, combos, 1, based_on, <<>>)
                  @@ [scen_vars |-> Attr(sv), scen_df |-> Attr(scen_df)]
        IN  IF lp.err # "" \/ ~del_REF THEN lp
            ELSE IF ~HasId(lp.reg, based_on) THEN [lp EXCEPT !.err = "AttributeError"]
            ELSE [lp EXCEPT !.reg = delattr_scens(lp.reg, based_on)]

(***************************************************************************)
(* Solving (the external model builder and solver).                        *)
(***************************************************************************)
\* what the solver may answer for one scenario
Outcomes ==
    { [status |-> "OPTIMAL", C |-> 100, CE |-> 50],
      [status |-> "SUBOPTIMAL", C |-> 300, CE |-> 150],
      [status |-> "INFEASIBLE", C |-> 0, CE |-> 0] }

is_success(status) == status \in {"OPTIMAL", "SUBOPTIMAL"}

\* sc.set_model(model_func): the model handle is opaque
sc_set_model(sc) == sc

\* sc.optimize(...): results are populated on success and absent otherwise
sc_optimize(sc, o) ==
    IF is_success(o.status)
    THEN [sc EXCEPT !.status = o.status, !.res = Res(o.C, o.CE), !.solved = TRUE]
    ELSE [sc EXCEPT !.status = o.status, !.res = NoRes]

\* what a batch run does, in order: <<"report", id>> for pbar.set_description(...),
\* <<"build", id>> / <<"solve", id>> for a call of sc.set_model / sc.optimize that
\* returned, <<"raise", id>> for one that raised
Event(what, id) == <<what, id>>

\* CaseStudy.set_model(model_func, scens=None): every registered scenario in registry
\* order; the build of scenario number fail_at raises (0: none does)
RECURSIVE set_model_loop(_, _, _, _, _)
set_model_loop(reg, hp, k, fail_at, trace) ==
    IF k > Len(reg) THEN [err |-> "", heap |-> hp, trace |-> trace]
    ELSE
    LET a == reg[k][2]
        reported == Append(trace, Event("report", hp[a].id))
    IN  IF k = fail_at
        THEN [err |-> "ModelBuildError", heap |-> hp,
              trace |-> Append(reported, Event("raise", hp[a].id))]
        ELSE set_model_loop(reg, [hp EXCEPT ![a] = sc_set_model(hp[a])], k + 1, fail_at,
                            Append(reported, Event("build", hp[a].id)))

set_model(reg, hp, fail_at) == set_model_loop(reg, hp, 1, fail_at, <<>>)

\* the loop of optimize with the report made after the solve it belongs to
RECURSIVE optimize_loop_report_after(_, _, _, _, _, _)
optimize_loop_report_after(reg, hp, outs, k, fail_at, trace) ==
    IF k > Len(reg) THEN [err |-> "", heap |-> hp, trace |-> trace]
    ELSE
    LET a == reg[k][2]
    IN  IF k = fail_at
        THEN [err |-> "SolveError", heap |-> hp,
              trace |-> Append(trace, Event("raise", hp[a].id))]
        ELSE optimize_loop_report_after(
                 reg, [hp EXCEPT ![a] = sc_optimize(hp[a], outs[k])], outs, k + 1, fail_at,
                 Append(Append(trace, Event("solve", hp[a].id)), Event("report", hp[a].id)))

\* CaseStudy.optimize(scens=None): every registered scenario in registry order; the
\* solve of scenario number fail_at raises (0: none does)
RECURSIVE optimize_loop(_, _, _, _, _, _)
optimize_loop(reg, hp, outs, k, fail_at, trace) ==
    IF k > Len(reg) THEN [err |-> "", heap |-> hp, trace |-> trace]
    ELSE
    LET a == reg[k][2]
        reported == Append(trace, Event("report", hp[a].id))
    IN  IF k = fail_at
        THEN [err |-> "SolveError", heap |-> hp,
              trace |-> Append(reported, Event("raise", hp[a].id))]
        ELSE optimize_loop(reg, [hp EXCEPT ![a] = sc_optimize(hp[a], outs[k])], outs, k + 1,
                           fail_at, Append(reported, Event("solve", hp[a].id)))

optimize(reg, hp, outs, fail_at) == optimize_loop(reg, hp, outs, 1, fail_at, <<>>)

(***************************************************************************)
(* set_params with a fixed params_func that registers the base entities.   *)
(***************************************************************************)
params_func(sc) ==
    [sc EXCEPT !.params = Put(Put(sc.params, "p", NumV(1)), "q", NumV(2)),
               !.vars = Put(sc.vars, "x", [lb |-> NumV(0), ub |-> NumV(10)])]

RECURSIVE set_params_loop(_, _, _)
set_params_loop(reg, hp, k) ==
    IF k > Len(reg) THEN hp
    ELSE set_params_loop(reg, [hp EXCEPT ![reg[k][2]] = params_func(hp[reg[k][2]])], k + 1)

set_params(reg, hp) == set_params_loop(reg, hp, 1)

(***************************************************************************)
(* valid_scens, ordered_valid_scens                                        *)
(***************************************************************************)
RECURSIVE Filter(_, _, _)
Filter(reg, hp, k) ==
    IF k > Len(reg) THEN <<>>
    ELSE (IF hp[reg[k][2]].res.has THEN <<reg[k]>> ELSE <<>>) \o Filter(reg, hp, k + 1)

\* no filter / the filtered items in reverse order
valid_scens_all(reg, hp) == reg
valid_scens_reversed(reg, hp) ==
    LET v == Filter(reg, hp, 1) IN [i \in 1..Len(v) |-> v[Len(v) + 1 - i]]

\* {name: sc for name, sc in self.scens_dic.items() if hasattr(sc, "res")}
valid_scens(reg, hp) == Filter(reg, hp, 1)

\* x put in front of the items whose key equals its own
insert_desc_ties_first(sorted, hp, x) ==
    LET key(e) == hp[e[2]].res.C_TOT_
        notgreater == {j \in 1..Len(sorted) : key(sorted[j]) <= key(x)}
        at == IF notgreater = {} THEN Len(sorted) + 1
              ELSE CHOOSE j \in notgreater : \A m \in notgreater : j <= m
    IN  SubSeq(sorted, 1, at - 1) \o <<x>> \o SubSeq(sorted, at, Len(sorted))

\* where a stable descending sort puts x: behind every item whose key is >= x's
insert_desc(sorted, hp, x) ==
    LET key(e) == hp[e[2]].res.C_TOT_
        smaller == {j \in 1..Len(sorted) : key(sorted[j]) < key(x)}
        at == IF smaller = {} THEN Len(sorted) + 1
              ELSE CHOOSE j \in smaller : \A m \in smaller : j <= m
    IN  SubSeq(sorted, 1, at - 1) \o <<x>> \o SubSeq(sorted, at, Len(sorted))

\* sorted(items, key=C_TOT_, reverse=True)
RECURSIVE sorted_desc(_, _, _)
sorted_desc(items, hp, k) ==
    IF k = 0 THEN <<>>
    ELSE insert_desc(sorted_desc(items, hp, k - 1), hp, items[k])

\* OrderedDict(sorted(self.valid_scens.items(), key=lambda kv: kv[1].res.C_TOT_, reverse=True))
ordered_valid_scens(reg, hp) ==
    LET items == valid_scens(reg, hp) IN sorted_desc(items, hp, Len(items))

(***************************************************************************)
(* pareto, pareto_table                                                    *)
(***************************************************************************)
\* self.obj_vars as the constructor sets it
obj_vars == <<"C_TOT_", "CE_TOT_">>

\* getattr(sc.res, var)
res_value(sc, var) == IF var = "C_TOT_" THEN sc.res.C_TOT_ ELSE sc.res.CE_TOT_

\* CaseStudy.pareto: a row for every registered scenario, labelled by its id
RECURSIVE pareto_loop(_, _, _, _)
pareto_loop(reg, hp, k, rows) ==
    IF k > Len(reg) THEN [err |-> "", rows |-> rows]
    ELSE
    LET sc == hp[reg[k][2]]
    IN  IF ~sc.res.has THEN [err |-> "AttributeError", rows |-> rows]
        ELSE pareto_loop(reg, hp, k + 1,
                         Append(rows, [id |-> reg[k][1],
                                       values |-> [v \in 1..Len(obj_vars) |->
                                                      res_value(sc, obj_vars[v])]]))

pareto(reg, hp) == pareto_loop(reg, hp, 1, <<>>)

\* CaseStudy.REF_scen exists: the scenario "REF" or else the first one
has_REF_scen(reg) == HasId(reg, "REF") \/ Len(reg) > 0

\* CsPlotter.pareto_table(gradient): the table of cs.pareto with a display format
pareto_table(reg, hp, gradient) ==
    LET df == pareto(reg, hp)
    IN  IF df.err # "" THEN [err |-> df.err, rows |-> <<>>, gradient |-> FALSE]
        ELSE IF ~has_REF_scen(reg) THEN [err |-> "IndexError", rows |-> <<>>, gradient |-> FALSE]
        ELSE [err |-> "", rows |-> df.rows, gradient |-> gradient]

(***************************************************************************)
(* improve_pareto_norm_factors                                             *)
(***************************************************************************)
RECURSIVE Sum(_)
Sum(xs) == IF Len(xs) = 0 THEN 0 ELSE Head(xs) + Sum(Tail(xs))

\* np.array(xs).mean()
mean(xs) == Frac(Sum(xs), Len(xs))

\* 1 / m
norm_factor_unit(m) == Frac(m.d, m.n)

\* 1e3 / m
norm_factor(m) == Frac(1000 * m.d, m.n)

\* lines 402-409: the probes for alpha = 0 and alpha = 1; seen collects the ids of the
\* registry as they are while each probe is registered
RECURSIVE probe_loop(_, _, _, _, _, _, _, _, _, _)
probe_loop(reg, hp, i, basis_scen_id, adjust_factor, outs, nC, nCE, probes, seen) ==
    IF i > 1
    THEN [err |-> "", reg |-> reg, heap |-> hp, nC |-> nC, nCE |-> nCE,
          probes |-> probes, seen |-> seen]
    ELSE
    LET r == add_scen(reg, hp, ToString(i), "pareto_improver", "", basis_scen_id, FALSE)
    IN  IF ~r.ok
        THEN [err |-> r.err, reg |-> reg, heap |-> hp, nC |-> nC, nCE |-> nCE,
              probes |-> probes, seen |-> seen]
        ELSE
        LET sc1 == update_params(r.heap[r.addr], "k_PTO_alpha_", NumV(i))
            sc2 == sc_optimize(sc_set_model(sc1), outs[i + 1])
            hp2 == [r.heap EXCEPT ![r.addr] = sc2]
            sn == Append(seen, scens_ids(r.reg))
        IN  IF ~sc2.res.has
            THEN [err |-> "AttributeError", reg |-> r.reg, heap |-> hp2,
                  nC |-> nC, nCE |-> nCE, probes |-> Append(probes, sc2), seen |-> sn]
            ELSE probe_loop(delattr_scens(r.reg, ToString(i)), hp2, i + 1, basis_scen_id,
                            adjust_factor, outs,
                            Append(nC, sc2.res.C_TOT_ * adjust_factor),
                            Append(nCE, sc2.res.CE_TOT_), Append(probes, sc2), sn)

\* the factors written into the first registered scenario only
broadcast_loop_first_only(reg, hp, k, nC, nCE) ==
    IF Len(reg) = 0 THEN hp
    ELSE [hp EXCEPT ![reg[1][2]] =
             update_params(update_params(@, "k_PTO_C_", norm_factor(mean(nC))),
                           "k_PTO_CE_", norm_factor(mean(nCE)))]

\* lines 411-413: both factors into every registered scenario
RECURSIVE broadcast_loop(_, _, _, _, _)
broadcast_loop(reg, hp, k, nC, nCE) ==
    IF k > Len(reg) THEN hp
    ELSE LET a == reg[k][2]
             sc == update_params(update_params(hp[a], "k_PTO_C_", norm_factor(mean(nC))),
                                 "k_PTO_CE_", norm_factor(mean(nCE)))
         IN broadcast_loop(reg, [hp EXCEPT ![a] = sc], k + 1, nC, nCE)

improve_pareto_norm_factors(reg, hp, adjust_factor, basis_scen_id, outs) ==
    LET pl == probe_loop(reg, hp, 0, basis_scen_id, adjust_factor, outs, <<>>, <<>>, <<>>, <<>>)
    IN  IF pl.err # "" THEN pl
        ELSE [pl EXCEPT !.heap = broadcast_loop(pl.reg, pl.heap, 1, pl.nC, pl.nCE)]

(***************************************************************************)
(* import_scens                                                            *)
(***************************************************************************)
\* an optional list of ids
NoList == [none |-> TRUE, ids |-> {}]
List(ids) == [none |-> FALSE, ids |-> ids]

\* the allow-list overriding the deny-list
scens_to_import_include_wins(oth, exclude, include) ==
    {n \in IdSet(oth) : IF include.none THEN exclude.none \/ n \notin exclude.ids
                        ELSE n \in include.ids}

\* lines 491-498
scens_to_import(oth, exclude, include) ==
    {n \in IdSet(oth) : (exclude.none \/ n \notin exclude.ids)
                        /\ (include.none \/ n \in include.ids)}

\* an import that keeps the entry of an id that is registered already
RECURSIVE import_loop_skip_present(_, _, _, _)
import_loop_skip_present(reg, oth, names, k) ==
    IF k > Len(oth) THEN reg
    ELSE import_loop_skip_present(
             IF oth[k][1] \in names /\ ~HasId(reg, oth[k][1])
             THEN setattr_scens(reg, oth[k][1], oth[k][2]) ELSE reg,
             oth, names, k + 1)

\* lines 500-502
RECURSIVE import_loop(_, _, _, _)
import_loop(reg, oth, names, k) ==
    IF k > Len(oth) THEN reg
    ELSE import_loop(IF oth[k][1] \in names THEN setattr_scens(reg, oth[k][1], oth[k][2])
                     ELSE reg,
                     oth, names, k + 1)

import_scens(reg, oth, exclude, include) ==
    import_loop(reg, oth, scens_to_import(oth, exclude, include), 1)

(***************************************************************************)
(* The state machine: one action per call on the case study.               *)
(***************************************************************************)
Call(op, outcome) ==
    [op |-> op, outcome |-> outcome, id |-> None, based_on |-> None, axes |-> <<>>,
     del |-> FALSE, created |-> <<>>, probes |-> <<>>, outs |-> <<>>, adj |-> 0, names |-> {},
     npp |-> 0, exclude |-> [none |-> TRUE, ids |-> {}], include |-> [none |-> TRUE, ids |-> {}],
     fail_at |-> 0, trace |-> <<>>, given |-> [none |-> TRUE, axes |-> <<>>], rows |-> <<>>,
     seen |-> <<>>, kept |-> FALSE]

\* the created scenarios as they are when the call ends
Snap(created, hp) ==
    [i \in 1..Len(created) |->
        [id |-> created[i].id, sc |-> hp[created[i].addr], combo |-> created[i].combo]]

Outcome(err) == IF err = "" THEN "ok" ELSE err

\* the second case study: a solved REF and an unsolved scenario derived from it
OtherREF ==
    sc_optimize(params_func(Scenario("REF", "REF", "Reference scenario")),
                [status |-> "OPTIMAL", C |-> 300, CE |-> 150])
OtherSc1 ==
    update_params([special_copy(OtherREF) EXCEPT !.id = "sc1", !.name = "", !.doc = ""],
                  "p", NumV(2))

\* my_vars = [("p", "p", [1])] in the caller's script
MyVars == Vars(<<Axis("p", "p", <<NumV(1)>>)>>)

\* CaseStudy(): an empty registry
Init ==
    /\ scens = <<>>
    /\ other = << <<"REF", 1>>, <<"sc1", 2>> >>
    /\ heap = <<OtherREF, OtherSc1>>
    /\ last = Call("init", "ok")
    /\ pre = [scens |-> <<>>, heap |-> <<>>, scen_vars |-> NoAttr, scen_df |-> NoAttr]
    /\ nops = 0
    /\ cs_scen_vars = NoAttr
    /\ cs_scen_df = NoAttr
    /\ my_vars = MyVars

\* a call ends with this registry, heap and attributes
StepAttrs(reg, hp, call, scen_vars, scen_df) ==
    /\ Len(reg) <= MaxScens
    /\ pre' = [scens |-> scens, heap |-> heap,
               scen_vars |-> cs_scen_vars, scen_df |-> cs_scen_df]
    /\ scens' = reg
    /\ heap' = Collect(reg, other, hp)
    /\ last' = call
    /\ nops' = nops + 1
    /\ cs_scen_vars' = scen_vars
    /\ cs_scen_df' = scen_df
    /\ UNCHANGED other

Step(reg, hp, call) ==
    /\ StepAttrs(reg, hp, call, cs_scen_vars, cs_scen_df)
    /\ UNCHANGED my_vars

\* the ids and the (based_on, based_on_last) pairs tried
AddScenIds == {None, "0"}
BasedOn == {<<"REF", FALSE>>, <<"REF", TRUE>>}

\* cs.add_REF_scen()
AddREFScen ==
    /\ nops < MaxOps
    /\ LET r == add_scen(scens, heap, "REF", "REF", "Reference scenario", None, FALSE)
       IN Step(r.reg, r.heap,
               [Call("add_REF_scen", Outcome(r.err)) EXCEPT
                   !.id = "REF",
                   !.created = IF r.ok THEN Snap(<<Created(r.id, r.addr, <<>>)>>, r.heap)
                               ELSE <<>>])

\* cs.add_scen(id, name="n", doc="d", based_on, based_on_last)
AddScen ==
    /\ nops < MaxOps
    /\ \E id \in AddScenIds, from \in BasedOn :
         LET based_on == from[1]
             based_on_last == from[2]
             r == add_scen(scens, heap, id, "n", "d", based_on, based_on_last)
         IN Step(r.reg, r.heap,
                 [Call("add_scen", Outcome(r.err)) EXCEPT
                     !.id = id, !.based_on = based_on, !.del = based_on_last,
                     !.created = IF r.ok THEN Snap(<<Created(r.id, r.addr, <<>>)>>, r.heap)
                                 ELSE <<>>])

\* cs.set_params(params_func)
SetParams ==
    /\ nops < MaxOps
    /\ Step(scens, set_params(scens, heap), Call("set_params", "ok"))

\* cs.scens.<id>.update_params(p=9)
UpdateParams ==
    /\ nops < MaxOps
    /\ \E id \in IdSet(scens) :
         Step(scens,
              [heap EXCEPT ![getattr_scens(scens, id)] = update_params(@, "p", NumV(9))],
              [Call("update_params", "ok") EXCEPT !.id = id])

\* cs.scens.<id>.vars._meta["x"]: both bounds set to 9
FixVar ==
    /\ nops < MaxOps
    /\ \E id \in IdSet(scens) :
         /\ "x" \in DOMAIN Obj(scens, heap, id).vars
         /\ Step(scens,
                 [heap EXCEPT ![getattr_scens(scens, id)] = fix_bounds(@, "x", NumV(9))],
                 [Call("fix_var", "ok") EXCEPT !.id = id])

\* the axis lists tried
SweepLists ==
    { NoVars,
      Vars(<<>>),
      Vars(<<Axis("p", "p", <<NumV(1), NumV(2)>>)>>),
      Vars(<<Axis("x", "x", <<NumV(3)>>), Axis("q", "b", <<StrV("p"), NumV(4)>>)>>),
      Vars(<<Axis("p", "a", <<NumV(5)>>), Axis("q", "b", <<StrV("p")>>)>>),
      Vars(<<Axis("q", "b", <<StrV("p")>>), Axis("p", "a", <<NumV(5)>>)>>),
      Vars(<<Axis("n", "n", <<NumV(7)>>), Axis("q", "b", <<StrV("n"), StrV("zz")>>)>>),
      Vars(<<Axis("p", "p", <<>>)>>),
      Vars(<<AxisPair("p", <<NumV(1), NumV(2)>>)>>) }

\* (scen_vars, nParetoPoints, del_REF, based_on) as passed to add_scens
SweepInputs ==
    (SweepLists \X {0} \X {FALSE} \X {"REF"})
    \cup ({NoVars} \X {2} \X {FALSE} \X {"REF"})
    \cup ({Vars(<<Axis("p", "p", <<NumV(1), NumV(2)>>)>>)} \X {0} \X {TRUE} \X {"REF"})
    \cup ({Vars(<<Axis("p", "p", <<NumV(1), NumV(2)>>)>>)} \X {2} \X {TRUE} \X {"REF"})
    \cup ({Vars(<<Axis("p", "p", <<NumV(1), NumV(2)>>)>>)} \X {0} \X {FALSE, TRUE} \X {"sc1"})

\* nParetoPoints as passed along with the caller's own list
KeptInputs == {0, 1}

\* cs.add_scens(scen_vars, nParetoPoints, del_REF, based_on) with a list written in the
\* call, or cs.add_scens(my_vars, nParetoPoints) with the list the caller keeps: line 283
\* appends to the list object it was given
AddScens ==
    /\ nops < MaxOps
    /\ \E kept \in BOOLEAN :
       \E input \in (IF kept THEN {my_vars} \X KeptInputs \X {FALSE} \X {"REF"}
                     ELSE SweepInputs) :
         LET scen_vars == input[1]
             nParetoPoints == input[2]
             del_REF == input[3]
             based_on == input[4]
             r == add_scens(scens, heap, scen_vars, nParetoPoints, del_REF, based_on)
         IN /\ StepAttrs(r.reg, r.heap,
                         [Call("add_scens", Outcome(r.err)) EXCEPT
                             !.based_on = based_on, !.del = del_REF, !.npp = nParetoPoints,
                             !.given = scen_vars, !.kept = kept,
                             !.axes = effective_vars(scen_vars, nParetoPoints).axes,
                             !.created = Snap(r.created, r.heap)],
                         r.scen_vars,
                         IF r.scen_df.set THEN r.scen_df ELSE cs_scen_df)
            /\ my_vars' = IF kept THEN r.scen_vars.val ELSE my_vars

\* the scenario of a batch of n whose build or solve raises (0: none)
FailAt(n) == {k \in 0..n : k <= 2}

\* cs.set_model(model_func); the build of at most one scenario raises
SetModel ==
    /\ nops < MaxOps
    /\ \E fail_at \in FailAt(Len(scens)) :
         LET r == set_model(scens, heap, fail_at)
         IN Step(scens, r.heap,
                 [Call("set_model", Outcome(r.err)) EXCEPT
                     !.fail_at = fail_at, !.trace = r.trace])

\* the solver's answers in one batch and the scenario whose solve raises: the answers
\* with at most one suboptimal and at most one infeasible scenario and no raise, and a
\* raise among optimal answers
SolveRuns(n) ==
    ({outs \in [1..n -> Outcomes] :
         /\ Cardinality({k \in 1..n : outs[k].status = "SUBOPTIMAL"}) <= 1
         /\ Cardinality({k \in 1..n : outs[k].status = "INFEASIBLE"}) <= 1} \X {0})
    \cup ({[k \in 1..n |-> [status |-> "OPTIMAL", C |-> 100, CE |-> 50]]}
          \X (FailAt(n) \ {0}))

\* cs.optimize()
Optimize ==
    /\ nops < MaxOps
    /\ \E run \in SolveRuns(Len(scens)) :
         LET outs == run[1]
             fail_at == run[2]
             r == optimize(scens, heap, outs, fail_at)
         IN Step(scens, r.heap,
                 [Call("optimize", Outcome(r.err)) EXCEPT
                     !.outs = outs, !.fail_at = fail_at, !.trace = r.trace])

\* what the solver answers for the two probes: both solved, or one of them infeasible
ProbeOutcomes ==
    {outs \in [1..2 -> Outcomes] :
        \/ outs[1].status = "OPTIMAL" /\ outs[2].status # "INFEASIBLE"
        \/ outs[1].status = "SUBOPTIMAL" /\ outs[2].status = "OPTIMAL"
        \/ outs[1].status = "INFEASIBLE" /\ outs[2].status = "OPTIMAL"
        \/ outs[1].status = "OPTIMAL" /\ outs[2].status = "INFEASIBLE"}

\* (adjust_factor, basis_scen_id, the solver's answers) as tried: with adjust_factor 1
\* on "REF" the probes are solved or one of them is infeasible, else they are solved
ImproveInputs ==
    {<<1, "REF", outs>> : outs \in {o \in ProbeOutcomes : o[1].status # "SUBOPTIMAL"
                                                          /\ o[2].status # "OPTIMAL"}}
    \cup {<<1, "REF", outs>> : outs \in {o \in ProbeOutcomes : o[1].status = "INFEASIBLE"}}
    \cup {<<arg[1], arg[2], outs>> :
             arg \in {<<2, "REF">>, <<1, "sc1">>},
             outs \in {o \in ProbeOutcomes : o[2].status = "SUBOPTIMAL"}}

\* cs.improve_pareto_norm_factors(model_func, adjust_factor, basis_scen_id)
ImproveParetoNormFactors ==
    /\ nops < MaxOps
    /\ \E arg \in ImproveInputs :
         LET adjust_factor == arg[1]
             basis_scen_id == arg[2]
             outs == arg[3]
             r == improve_pareto_norm_factors(scens, heap, adjust_factor, basis_scen_id, outs)
         IN Step(r.reg, r.heap,
                 [Call("improve_pareto_norm_factors", Outcome(r.err)) EXCEPT
                     !.based_on = basis_scen_id, !.adj = adjust_factor,
                     !.outs = SubSeq(outs, 1, Len(r.probes)), !.probes = r.probes,
                     !.seen = r.seen])

\* cs.plot.pareto_table(gradient)
ParetoTable ==
    /\ nops < MaxOps
    /\ \E gradient \in {FALSE} :
         LET r == pareto_table(scens, heap, gradient)
         IN Step(scens, heap, [Call("pareto_table", Outcome(r.err)) EXCEPT !.rows = r.rows])

\* (exclude, include) as passed to import_scens
ImportLists ==
    { <<NoList, NoList>>,
      <<List({"sc1"}), NoList>>,
      <<NoList, List({"REF"})>>,
      <<List({"sc1"}), List({"REF", "sc1"})>> }

\* cs.import_scens(other_cs, exclude, include)
ImportScens ==
    /\ nops < MaxOps
    /\ \E lists \in ImportLists :
         LET exclude == lists[1]
             include == lists[2]
         IN Step(import_scens(scens, other, exclude, include), heap,
                 [Call("import_scens", "ok") EXCEPT
                     !.names = scens_to_import(other, exclude, include),
                     !.exclude = exclude, !.include = include])

Next ==
    \/ AddREFScen
    \/ AddScen
    \/ SetParams
    \/ UpdateParams
    \/ FixVar
    \/ AddScens
    \/ SetModel
    \/ Optimize
    \/ ImproveParetoNormFactors
    \/ ParetoTable
    \/ ImportScens

Spec == Init /\ [][Next]_vars

(***************************************************************************)
(* Properties.                                                             *)
(***************************************************************************)
\* the scenario the last call was based on, as it was before the call
PreHas(id) == HasId(pre.scens, id)
PreObj(id) == Obj(pre.scens, pre.heap, id)

RECURSIVE Cardinalities(_)
Cardinalities(axes) ==
    IF Len(axes) = 0 THEN 1 ELSE Len(Head(axes).values) * Cardinalities(Tail(axes))

SweepDone == last.op = "add_scens" /\ last.outcome = "ok"

\* the created scenario i of the last sweep got all its entries applied
FullyApplied(i) == ~(last.outcome = "UnknownEntity" /\ i = Len(last.created))

\* the scenario that created scenario i was copied from
BaseOf(i) ==
    IF i > 1 /\ last.created[i - 1].id = last.based_on THEN last.created[i - 1].sc
    ELSE PreObj(last.based_on)

\* what the sweep stored for entity e in scenario sc
Stored(sc, e) == IF e \in DOMAIN sc.vars THEN sc.vars[e].lb ELSE sc.params[e]

\* C1: one call of add_scens adds exactly n1*...*nk scenarios to the registry, each
\* registered under a distinct id.
C1_SweepAddsProduct ==
    SweepDone =>
        /\ Len(last.created) = Cardinalities(last.axes)
        /\ Cardinality({last.created[i].id : i \in 1..Len(last.created)}) = Len(last.created)
        /\ Len(scens) = Len(pre.scens) + Cardinalities(last.axes) - (IF last.del THEN 1 ELSE 0)

View(reg, hp, id) == [params |-> Obj(reg, hp, id).params, vars |-> Obj(reg, hp, id).vars]

\* C2: a change of a parameter or of a variable bound of one scenario leaves the
\* parameters and bounds of every other registered scenario as they were; in
\* particular those of its parent, of its children and of its siblings.
C2_DerivationIndependence ==
    last.op \in {"update_params", "fix_var"} =>
        \A id \in IdSet(scens) :
            id # last.id => View(scens, heap, id) = View(pre.scens, pre.heap, id)

\* a derived scenario was changed while its parent and a sibling are registered
C2_Witness ==
    /\ last.op \in {"update_params", "fix_var"}
    /\ LET c == Obj(scens, heap, last.id)
       IN /\ c.parent # None
          /\ HasId(scens, c.parent)
          /\ c.parent # last.id
          /\ View(scens, heap, c.parent) # View(scens, heap, last.id)
          /\ \E s \in IdSet(scens) :
                /\ s # last.id
                /\ Obj(scens, heap, s).parent = c.parent
                /\ View(scens, heap, last.id) # View(pre.scens, pre.heap, last.id)

Axes == 1..Len(last.axes)

\* C3: a literal sweep value for a name registered as a variable ends as lower bound ==
\* upper bound == value with the parameter of that name untouched; for any other name
\* the parameter equals the value; bounds of variables no axis names are the base's.
C3_SweepRouting ==
    last.op = "add_scens" =>
        \A i \in 1..Len(last.created) :
            FullyApplied(i) =>
                LET sc == last.created[i].sc
                    combo == last.created[i].combo
                    base == BaseOf(i)
                IN  /\ DOMAIN sc.vars = DOMAIN base.vars
                    /\ \A j \in Axes :
                          LET e == last.axes[j].long
                          IN  ~IsStr(combo[j]) =>
                                IF e \in DOMAIN base.vars
                                THEN /\ sc.vars[e] = [lb |-> combo[j], ub |-> combo[j]]
                                     /\ (e \in DOMAIN sc.params) = (e \in DOMAIN base.params)
                                     /\ e \in DOMAIN base.params => sc.params[e] = base.params[e]
                                ELSE /\ e \in DOMAIN sc.params
                                     /\ sc.params[e] = combo[j]
                    /\ \A x \in DOMAIN base.vars :
                          (\A j \in Axes : last.axes[j].long # x) => sc.vars[x] = base.vars[x]

\* a sweep fixed the variable x and set a parameter in the same scenario
C3_Witness ==
    /\ SweepDone
    /\ \E i \in 1..Len(last.created) :
          LET sc == last.created[i].sc
          IN  /\ "x" \in DOMAIN sc.vars
              /\ sc.vars["x"] = [lb |-> NumV(3), ub |-> NumV(3)]
              /\ "x" \notin DOMAIN sc.params
              /\ \E j \in Axes : last.axes[j].long = "q" /\ last.created[i].combo[j] = NumV(4)
              /\ sc.params["q"] = NumV(4)

NamedBy(sc, j, str) == last.axes[j].long = str /\ str \notin DOMAIN sc.vars

\* C4: a string sweep value is stored as the value the named entity has in the derived
\* scenario when the entry is applied (after the earlier axes of the combination), never
\* as the string; a sweep with a string naming no entity ends in an error.
C4_StringResolution ==
    last.op = "add_scens" =>
        /\ \A i \in 1..Len(last.created) :
              FullyApplied(i) =>
                LET sc == last.created[i].sc
                    combo == last.created[i].combo
                    base == BaseOf(i)
                IN  \A j \in Axes :
                      IsStr(combo[j]) =>
                        LET str == combo[j].s
                            got == Stored(sc, last.axes[j].long)
                        IN  /\ ~IsStr(got)
                            /\ (str \in DOMAIN base.params
                                    \/ \E k \in 1..(j - 1) : NamedBy(sc, k, str))
                            /\ got = IF \E k \in (j + 1)..Len(last.axes) : NamedBy(sc, k, str)
                                     THEN base.params[str]
                                     ELSE sc.params[str]
        /\ last.outcome = "UnknownEntity" =>
              LET cr == last.created[Len(last.created)]
              IN  \E j \in Axes :
                    /\ IsStr(cr.combo[j])
                    /\ cr.combo[j].s \notin DOMAIN BaseOf(Len(last.created)).params
                    /\ \A k \in 1..(j - 1) : ~NamedBy(cr.sc, k, cr.combo[j].s)

\* a string value was resolved to the value an earlier axis of the same combination gave
C4_Witness ==
    /\ SweepDone
    /\ \E i \in 1..Len(last.created) :
          \E j \in Axes :
            /\ last.created[i].combo[j] = StrV("p")
            /\ last.axes[j].long = "q"
            /\ \E k \in 1..(j - 1) : last.axes[k].long = "p" /\ last.created[i].combo[k] = NumV(5)
            /\ last.created[i].sc.params["q"] = NumV(5)

\* C5: improve_pareto_norm_factors leaves the registry with the ids it had before the
\* call, and the probes "0" and "1" are absent afterward.
C5_ImproveKeepsIds ==
    (last.op = "improve_pareto_norm_factors" /\ last.outcome = "ok") =>
        /\ IdSet(scens) = IdSet(pre.scens)
        /\ "0" \notin IdSet(scens)
        /\ "1" \notin IdSet(scens)

\* C6: adding a scenario under an id that is already registered is rejected, and the
\* registry (ids, order, the object stored under the id) is left unchanged.
C6_DuplicateIdRejected ==
    (last.op \in {"add_scen", "add_REF_scen"} /\ last.id # None /\ PreHas(last.id)) =>
        /\ last.outcome # "ok"
        /\ scens = pre.scens
        /\ Obj(scens, heap, last.id) = PreObj(last.id)

InSeq(e, seq) == \E i \in 1..Len(seq) : seq[i] = e

\* C7: valid_scens is a subset of the registered scenarios, and a registered scenario is
\* in it iff its last solve status is OPTIMAL or SUBOPTIMAL.
C7_ValidIffSolved ==
    LET v == valid_scens(scens, heap)
    IN  /\ \A i \in 1..Len(v) : InSeq(v[i], scens)
        /\ \A i \in 1..Len(scens) :
              InSeq(scens[i], v) <=> heap[scens[i][2]].status \in {"OPTIMAL", "SUBOPTIMAL"}

\* an optimal, a suboptimal and an infeasible scenario are registered
C7_Witness ==
    /\ \E i \in 1..Len(scens) : heap[scens[i][2]].status = "INFEASIBLE"
    /\ \E i \in 1..Len(scens) : heap[scens[i][2]].status = "SUBOPTIMAL"
    /\ \E i \in 1..Len(scens) : heap[scens[i][2]].status = "OPTIMAL"
    /\ Len(valid_scens(scens, heap)) = 2

\* C8: valid_scens holds exactly the registered scenarios with results, keyed by id and
\* in registry order; a scenario never solved successfully is not in it.
C8_ValidHasResults ==
    LET v == valid_scens(scens, heap)
    IN  /\ v = SelectSeq(scens, LAMBDA e : heap[e[2]].res.has)
        /\ \A i \in 1..Len(v) : heap[v[i][2]].solved /\ heap[v[i][2]].id = v[i][1]

\* of three registered scenarios the first two have results, the third was derived
\* from a solved scenario and has none
C8_Witness ==
    /\ Len(scens) = 3
    /\ scens_ids(valid_scens(scens, heap)) = <<scens[1][1], scens[2][1]>>
    /\ heap[scens[3][2]].parent = scens[1][1]
    /\ heap[scens[3][2]].status = "NONE"

Pos(e, seq) == CHOOSE i \in 1..Len(seq) : seq[i] = e

\* C9: ordered_valid_scens is a permutation of valid_scens in non-increasing C_TOT_;
\* valid scenarios of equal cost keep their registry order.
C9_OrderedStable ==
    LET v == valid_scens(scens, heap)
        o == ordered_valid_scens(scens, heap)
        cost(e) == heap[e[2]].res.C_TOT_
    IN  /\ Len(o) = Len(v)
        /\ \A i \in 1..Len(v) : InSeq(v[i], o)
        /\ \A i, j \in 1..Len(o) :
              i < j => /\ cost(o[i]) >= cost(o[j])
                       /\ cost(o[i]) = cost(o[j]) => Pos(o[i], v) < Pos(o[j], v)

\* three valid scenarios, the first and the last of equal cost, the middle one dearer
C9_Witness ==
    LET v == valid_scens(scens, heap)
        o == ordered_valid_scens(scens, heap)
    IN  /\ Len(v) = 3
        /\ heap[v[1][2]].res.C_TOT_ = heap[v[3][2]].res.C_TOT_
        /\ heap[v[2][2]].res.C_TOT_ > heap[v[1][2]].res.C_TOT_
        /\ o = <<v[2], v[1], v[3]>>

ImproveDone == last.op = "improve_pareto_norm_factors" /\ last.outcome = "ok"

\* C10: k_PTO_C_ = 1000 / mean(adjust_factor * cost of probe 0, adjust_factor * cost of
\* probe 1) and k_PTO_CE_ = 1000 / mean(emission of probe 0, emission of probe 1), where
\* probe i is the base scenario with k_PTO_alpha_ = i.
C10_NormFactors ==
    ImproveDone =>
        LET p == last.probes
            base == PreObj(last.based_on)
            costs == last.adj * p[1].res.C_TOT_ + last.adj * p[2].res.C_TOT_
            emissions == p[1].res.CE_TOT_ + p[2].res.CE_TOT_
        IN  /\ Len(p) = 2
            /\ \A i \in 1..2 :
                  /\ p[i].params["k_PTO_alpha_"] = NumV(i - 1)
                  /\ p[i].id = ToString(i - 1)
                  /\ p[i].res = Res(last.outs[i].C, last.outs[i].CE)
                  /\ \A n \in DOMAIN base.params :
                        n # "k_PTO_alpha_" => p[i].params[n] = base.params[n]
                  /\ p[i].vars = base.vars
            /\ \A k \in 1..Len(scens) :
                  LET sc == heap[scens[k][2]]
                  IN  /\ sc.params["k_PTO_C_"].n * costs = 2 * 1000 * sc.params["k_PTO_C_"].d
                      /\ sc.params["k_PTO_CE_"].n * emissions = 2 * 1000 * sc.params["k_PTO_CE_"].d

\* probe costs 100 and 300 with adjust_factor 1 gave the cost factor 5
C10_Witness ==
    /\ ImproveDone
    /\ last.adj = 1
    /\ last.probes[1].res.C_TOT_ = 100
    /\ last.probes[2].res.C_TOT_ = 300
    /\ Len(scens) > 0
    /\ \A k \in 1..Len(scens) : heap[scens[k][2]].params["k_PTO_C_"] = Frac(5, 1)

\* C11: after improve_pareto_norm_factors has returned, every scenario in the registry
\* holds k_PTO_C_ and k_PTO_CE_, the same two values in all of them: the factors of the
\* two probes, 1000 / (sum of the adjusted probe costs / 2) and 1000 / (sum of the probe
\* emissions / 2).
C11_FactorsBroadcast ==
    ImproveDone =>
        LET p == last.probes
            fC == Frac(2 * 1000, last.adj * p[1].res.C_TOT_ + last.adj * p[2].res.C_TOT_)
            fCE == Frac(2 * 1000, p[1].res.CE_TOT_ + p[2].res.CE_TOT_)
        IN  \A k \in 1..Len(scens) :
              LET sc == heap[scens[k][2]]
              IN  /\ {"k_PTO_C_", "k_PTO_CE_"} \subseteq DOMAIN sc.params
                  /\ sc.params["k_PTO_C_"] = fC
                  /\ sc.params["k_PTO_CE_"] = fCE

\* two scenarios are registered when the call returns; the second held no factor before
C11_Witness ==
    /\ ImproveDone
    /\ Len(scens) >= 2
    /\ PreHas(scens[2][1])
    /\ "k_PTO_CE_" \notin DOMAIN PreObj(scens[2][1]).params
    /\ heap[scens[1][2]].params["k_PTO_CE_"] = Frac(10, 1)
    /\ heap[scens[2][2]].params["k_PTO_CE_"] = Frac(10, 1)

\* combination number i of the last sweep with the values as the caller listed them
Declared(i) == from_product([j \in Axes |-> last.axes[j].values])[i]

\* C12: a scenario generated by add_scens has as name the pieces short label + str(value)
\* of its combination in declared axis order, joined by "_", and as doc the pieces
\* "entity=value" in declared axis order, joined by "; ".
C12_NamesAndDocs ==
    last.op = "add_scens" =>
        \A i \in 1..Len(last.created) :
            LET sc == last.created[i].sc
                combo == Declared(i)
            IN  /\ sc.name = Join("_", [j \in Axes |-> last.axes[j].short \o Str(combo[j])])
                /\ sc.doc = Join("; ", [j \in Axes |->
                                           last.axes[j].long \o "=" \o Str(combo[j])])

\* the same number or string, whatever the number's type
SameValue(v, w) == v.n = w.n /\ v.d = w.d /\ v.s = w.s

\* the product of the cardinalities of the axes behind axis j
RECURSIVE Stride(_)
Stride(j) == IF j >= Len(last.axes) THEN 1 ELSE Len(last.axes[j + 1].values) * Stride(j + 1)

\* the value of axis j in combination number i when the first axis varies slowest
ProductValue(i, j) ==
    last.axes[j].values[(((i - 1) \div Stride(j)) % Len(last.axes[j].values)) + 1]

\* C13: add_scens registers the generated scenarios under the ids "sc<N>" of a running
\* counter, in the order of the cartesian product (first axis slowest, last axis
\* fastest), behind all scenarios that were registered before the call.
C13_GenerationOrder ==
    SweepDone =>
        LET n == Len(last.created)
            kept == IF last.del THEN delattr_scens(pre.scens, last.based_on) ELSE pre.scens
        IN  /\ \A i \in 1..n :
                  /\ last.created[i].id = "sc" \o ToString(Len(pre.scens) + i - 1)
                  /\ \A j \in Axes : SameValue(last.created[i].combo[j], ProductValue(i, j))
            /\ Len(scens) = Len(kept) + n
            /\ \A i \in 1..Len(kept) : scens[i] = kept[i]
            /\ \A i \in 1..n :
                  /\ scens[Len(kept) + i][1] = last.created[i].id
                  /\ heap[scens[Len(kept) + i][2]] = last.created[i].sc

\* the last call was add_scens without any axis, with an axis without values, or with a
\* tuple that is no (long name, short name, values) triple
BadSweepConfig ==
    /\ last.op = "add_scens"
    /\ \/ Len(last.axes) = 0
       \/ \E j \in Axes : Len(last.axes[j].values) = 0
       \/ \E j \in Axes : last.axes[j].arity # 3

\* C14: add_scens without axes (scen_vars None or empty, nParetoPoints = 0), with an axis
\* whose value list is empty, or with a malformed axis tuple ends in an error, creates no
\* scenario, and leaves the registry and the attributes scen_vars and scen_df as they were.
C14_ConfigErrorLeavesNoState ==
    BadSweepConfig =>
        /\ last.outcome # "ok"
        /\ Len(last.created) = 0
        /\ scens = pre.scens
        /\ \A i \in 1..Len(scens) : heap[scens[i][2]] = pre.heap[scens[i][2]]
        /\ cs_scen_vars = pre.scen_vars
        /\ cs_scen_df = pre.scen_df

ImportDone == last.op = "import_scens"

\* the ids of the other registry that the lists of the last import let through
Wanted ==
    {n \in IdSet(other) : /\ last.include.none \/ n \in last.include.ids
                          /\ last.exclude.none \/ n \notin last.exclude.ids}

\* C15: import_scens imports exactly the ids of the other registry that are in include
\* (when given) and not in exclude (when given), an id named in both is not imported, and
\* the entries of this registry that are not imported stay as they were.
C15_ImportFilter ==
    ImportDone =>
        /\ IdSet(scens) = IdSet(pre.scens) \cup Wanted
        /\ \A n \in Wanted : getattr_scens(scens, n) = getattr_scens(other, n)
        /\ \A n \in IdSet(pre.scens) \ Wanted :
              /\ getattr_scens(scens, n) = getattr_scens(pre.scens, n)
              /\ IndexOf(scens, n) = IndexOf(pre.scens, n)
              /\ Obj(scens, heap, n) = PreObj(n)

\* "sc1" was named in both lists: the own scenario "sc1" stayed, "REF" was imported
C15_Witness ==
    /\ ImportDone
    /\ ~last.include.none /\ "sc1" \in last.include.ids
    /\ ~last.exclude.none /\ "sc1" \in last.exclude.ids
    /\ PreHas("sc1")
    /\ getattr_scens(scens, "sc1") # getattr_scens(other, "sc1")
    /\ getattr_scens(scens, "REF") = getattr_scens(other, "REF")

\* C16: import_scens does not fail on an id that is registered already: the entry is
\* replaced, where it stands, by the scenario of the other registry; an imported entry is
\* the object the other registry holds, so that a change made through this registry shows
\* through the other one; the other registry and its objects are as before the import.
C16_ImportOverwritesShared ==
    /\ ImportDone =>
          /\ last.outcome = "ok"
          /\ last.names = Wanted
          /\ \A n \in last.names :
                /\ getattr_scens(scens, n) = getattr_scens(other, n)
                /\ PreHas(n) => IndexOf(scens, n) = IndexOf(pre.scens, n)
          /\ Len(scens) = Cardinality(IdSet(pre.scens) \cup last.names)
          /\ \A a \in Addrs(other) : heap[a] = pre.heap[a]
    /\ (last.op = "update_params" /\ HasId(other, last.id)
            /\ getattr_scens(pre.scens, last.id) = getattr_scens(other, last.id)) =>
          /\ Obj(other, heap, last.id).params["p"] = NumV(9)
          /\ Obj(other, heap, last.id) = Obj(scens, heap, last.id)
    /\ other = << <<"REF", 1>>, <<"sc1", 2>> >>

\* the registry held a scenario "REF" of its own, which the import replaced
C16_Witness ==
    /\ ImportDone
    /\ PreHas("REF")
    /\ getattr_scens(pre.scens, "REF") # getattr_scens(other, "REF")
    /\ PreObj("REF").params # Obj(other, heap, "REF").params
    /\ getattr_scens(scens, "REF") = getattr_scens(other, "REF")
    /\ Len(scens) = Len(pre.scens)

BatchDone == last.op \in {"set_model", "optimize"}

\* the batch built or solved the scenario id, or tried to
Attempted(id) ==
    \E e \in 1..Len(last.trace) :
        last.trace[e] \in {Event("build", id), Event("solve", id), Event("raise", id)}

\* C17: in a batch run of set_model or optimize the failure of one scenario's build or
\* solve does not abort the batch: the call returns, every scenario of the batch was
\* built or solved or had its failure, and a solve that ended without a solution is
\* recorded as the status of that scenario.
C17_BatchContinues ==
    BatchDone =>
        /\ last.outcome = "ok"
        /\ \A k \in 1..Len(scens) : Attempted(scens[k][1])
        /\ last.op = "optimize" =>
              \A k \in 1..Len(scens) :
                  k # last.fail_at => heap[scens[k][2]].status = last.outs[k].status

\* C18: optimize works through the scenarios of the registry in registry order, one
\* after the other and each once; the report naming a scenario comes directly before
\* the solve of that scenario and behind the solve of the scenario before it; a call
\* that returns has solved every scenario of the registry, with the solver's answer
\* recorded on the scenario.
C18_ReportThenSolveInOrder ==
    last.op = "optimize" =>
        LET n == IF last.outcome = "ok" THEN Len(pre.scens) ELSE last.fail_at
        IN  /\ scens = pre.scens
            /\ Len(last.trace) = 2 * n
            /\ \A k \in 1..n :
                  /\ last.trace[2 * k - 1] = Event("report", pre.scens[k][1])
                  /\ last.trace[2 * k] =
                        Event(IF k = last.fail_at THEN "raise" ELSE "solve", pre.scens[k][1])
                  /\ k # last.fail_at =>
                        /\ heap[scens[k][2]].status = last.outs[k].status
                        /\ heap[scens[k][2]].res.has = is_success(last.outs[k].status)
            /\ \A k \in (n + 1)..Len(scens) : heap[scens[k][2]] = pre.heap[scens[k][2]]

\* a batch of three scenarios returned; the first one was infeasible, the last optimal
C18_Witness ==
    /\ last.op = "optimize"
    /\ last.outcome = "ok"
    /\ Len(scens) = 3
    /\ Len(last.trace) = 6
    /\ heap[scens[1][2]].status = "INFEASIBLE"
    /\ heap[scens[3][2]].status = "OPTIMAL"
    /\ last.trace[5] = Event("report", scens[3][1])
    /\ last.trace[6] = Event("solve", scens[3][1])

\* C19: the Pareto table of a non-empty registry is computed without an error, also
\* when a scenario has no results; it has one row per scenario with results, in registry
\* order, labelled by the id and holding C_TOT_ and CE_TOT_ of that scenario, and no row
\* for a scenario without results.
C19_ParetoSkipsUnsolved ==
    (last.op = "pareto_table" /\ Len(scens) > 0) =>
        LET v == SelectSeq(scens, LAMBDA e : heap[e[2]].res.has)
        IN  /\ last.outcome = "ok"
            /\ Len(last.rows) = Len(v)
            /\ \A i \in 1..Len(v) :
                  /\ last.rows[i].id = v[i][1]
                  /\ last.rows[i].values =
                        <<heap[v[i][2]].res.C_TOT_, heap[v[i][2]].res.CE_TOT_>>

\* C20: with nParetoPoints = N > 0 the axis list of the sweep is the caller's axes
\* followed by one axis ("k_PTO_alpha_", "a") of N evenly spaced floats from 0 to 1; a
\* sweep that returns has generated n1 * ... * nk * N scenarios (N without axes of the
\* caller), the weighting value varying fastest and stored as the parameter k_PTO_alpha_.
C20_ParetoAxis ==
    (last.op = "add_scens" /\ last.npp > 0) =>
        LET N == last.npp
            k == Len(last.axes)
        IN  /\ k = Len(last.given.axes) + 1
            /\ \A j \in 1..(k - 1) : last.axes[j] = last.given.axes[j]
            /\ last.axes[k].long = "k_PTO_alpha_"
            /\ last.axes[k].short = "a"
            /\ Len(last.axes[k].values) = N
            /\ \A i \in 1..N :
                  LET v == last.axes[k].values[i]
                  IN  /\ IsFloat(v)
                      /\ IF N = 1 THEN v.n = 0 ELSE v.n * (N - 1) = (i - 1) * v.d
            /\ SweepDone =>
                  /\ Len(last.created) = Cardinalities(last.given.axes) * N
                  /\ \A i \in 1..Len(last.created) :
                        last.created[i].sc.params["k_PTO_alpha_"]
                            = last.axes[k].values[((i - 1) % N) + 1]

\* a sweep over an axis of two values with two Pareto points gave four scenarios
C20_Witness ==
    /\ SweepDone
    /\ last.npp = 2
    /\ Len(last.given.axes) = 1
    /\ Len(last.given.axes[1].values) = 2
    /\ Len(last.created) = 4
    /\ last.created[2].sc.params["k_PTO_alpha_"] = Frac(1, 1)
    /\ last.created[3].sc.params["k_PTO_alpha_"] = Frac(0, 1)


AddScenDone == last.op = "add_scen" /\ last.outcome = "ok"

\* the scenario the last add_scen copied: the last registered one with based_on_last
\* (recorded in last.del), else the one named by based_on
AddScenBase == IF last.del THEN scens_ids(pre.scens)[Len(pre.scens)] ELSE last.based_on

\* the id the last add_scen was to register its scenario under
AddScenId == IF last.id = None THEN "sc" \o ToString(Len(pre.scens)) ELSE last.id

\* C21: a scenario that add_scen derived from a parent starts unsolved, also when the
\* parent is solved: it has no results, its solve status is reset, and its id is not
\* among valid_scens; its id, name and doc are those of the call (the doc behind the
\* prefix that based_on_last adds), not the parent's.
C21_DerivedStartsUnsolved ==
    AddScenDone =>
        LET sc == last.created[1].sc
        IN  /\ ~sc.res.has
            /\ sc.status = "NONE"
            /\ \A i \in 1..Len(valid_scens(scens, heap)) : valid_scens(scens, heap)[i][1] # sc.id
            /\ sc.id = AddScenId
            /\ HasId(scens, sc.id) /\ Obj(scens, heap, sc.id) = sc
            /\ sc.name = "n"
            /\ sc.doc = (IF last.del THEN AddScenBase \o " + d" ELSE "d")

\* add_scen derived a scenario from a solved parent that is still registered and valid
C21_Witness ==
    /\ AddScenDone
    /\ PreObj(AddScenBase).res.has
    /\ PreObj(AddScenBase).status = "OPTIMAL"
    /\ AddScenBase # last.created[1].sc.id
    /\ \E i \in 1..Len(valid_scens(scens, heap)) : valid_scens(scens, heap)[i][1] = AddScenBase
    /\ PreObj(AddScenBase).name # "n"

\* the last call numbered scenarios itself: add_scen with id=None, or add_scens
Numbered ==
    /\ last.op \in {"add_scen", "add_scens"}
    /\ last.op = "add_scen" => last.id = None
    /\ Len(last.created) > 0

CreatedIds == {last.created[i].id : i \in 1..Len(last.created)}

\* C22: the scenarios that add_scen with id=None and add_scens number get the ids
\* "sc<N>" that are not registered when they are created: the ids of one call are
\* distinct, none was registered before the call, and every scenario registered before
\* the call (but a base removed by del_REF) is still registered as the same object.
C22_NumberedIdsAreFresh ==
    Numbered =>
        /\ \A i \in 1..Len(last.created) : ~PreHas(last.created[i].id)
        /\ Cardinality(CreatedIds) = Len(last.created)
        /\ \A id \in IdSet(pre.scens) :
              ~(last.op = "add_scens" /\ last.del /\ last.outcome = "ok" /\ id = last.based_on)
                 => /\ HasId(scens, id)
                    /\ getattr_scens(scens, id) = getattr_scens(pre.scens, id)

\* created scenario i of the last call is registered under its id as it was created
Registered(i) ==
    /\ HasId(scens, last.created[i].id)
    /\ Obj(scens, heap, last.created[i].id) = last.created[i].sc

\* C23: add_scens with del_REF=True ends with the scenarios registered before minus
\* the base (based_on) plus all generated scenarios: the base is gone, every generated
\* scenario is registered, every other scenario is registered as the object it was;
\* with del_REF=False the base stays registered as the object it was.
C23_DelREFAfterSweep ==
    SweepDone /\ PreHas(last.based_on) =>
        IF last.del
        THEN /\ ~HasId(scens, last.based_on)
             /\ \A i \in 1..Len(last.created) : Registered(i)
             /\ Len(scens) = Len(pre.scens) - 1 + Cardinalities(last.axes)
             /\ \A id \in IdSet(pre.scens) \ {last.based_on} :
                   /\ HasId(scens, id)
                   /\ getattr_scens(scens, id) = getattr_scens(pre.scens, id)
        ELSE /\ HasId(scens, last.based_on)
             /\ getattr_scens(scens, last.based_on) = getattr_scens(pre.scens, last.based_on)

\* the last call was add_scen or add_scens and ended in a lookup error: an unknown base
\* scenario (AttributeError of getattr on the registry) or a string value that names no
\* entity
LookupFailed ==
    /\ last.op \in {"add_scen", "add_scens"}
    /\ last.outcome \in {"AttributeError", "UnknownEntity"}

\* C24: add_scen or add_scens that ends in a lookup error leaves the registry with
\* exactly the scenarios it held before the call, each the object it was, and no
\* scenario of the failed call registered.
C24_LookupErrorLeavesRegistry ==
    LookupFailed =>
        /\ scens = pre.scens
        /\ \A id \in IdSet(scens) : Obj(scens, heap, id) = PreObj(id)

\* the ids of the other registry that the last import took, in the order of that registry
RECURSIVE ImportedIds(_)
ImportedIds(k) ==
    IF k > Len(other) THEN <<>>
    ELSE (IF other[k][1] \in last.names THEN <<other[k][1]>> ELSE <<>>) \o ImportedIds(k + 1)

\* the last call added scenarios to the registry
JustAdded ==
    /\ last.outcome = "ok"
    /\ \/ last.op \in {"add_REF_scen", "add_scen", "add_scens"} /\ Len(last.created) > 0
       \/ last.op = "import_scens" /\ last.names # {}

\* the id of the scenario that the last call added last
NewestId ==
    IF last.op = "import_scens" THEN ImportedIds(1)[Len(ImportedIds(1))]
    ELSE last.created[Len(last.created)].id

\* the next call is add_scen(..., doc="d", based_on_last=True): its scenario is a copy
\* of the scenario added last and its doc names that scenario
BasedOnLastStep ==
    (/\ JustAdded
     /\ HasId(scens, NewestId)
     /\ last'.op = "add_scen" /\ last'.del /\ last'.outcome = "ok")
    => LET sc == last'.created[1].sc
           base == Obj(scens, heap, NewestId)
       IN  /\ sc.parent = NewestId
           /\ sc.doc = NewestId \o " + d"
           /\ sc.params = base.params
           /\ sc.vars = base.vars

\* C25: add_scen with based_on_last=True derives its scenario from the scenario that
\* was added to the registry most recently, whatever based_on says, and starts the doc
\* with "<id of that scenario> + "; also when that scenario was added under an id that
\* was registered already.
C25_BasedOnLast == [][BasedOnLastStep]_vars

ProbeIds == {"0", "1"}

\* the parameters of sc apart from the two normalisation factors
WithoutFactors(sc) ==
    [n \in (DOMAIN sc.params) \ {"k_PTO_C_", "k_PTO_CE_"} |-> sc.params[n]]

\* C26: while improve_pareto_norm_factors runs, at most one of the probes "0" and "1" is
\* registered at any time; each probe has the parameters and bounds that the base
\* scenario had before the call, with k_PTO_alpha_ set to its number; and every scenario
\* that stays registered keeps its bounds and all its parameters except k_PTO_C_ and
\* k_PTO_CE_, the base's k_PTO_alpha_ included.
C26_ProbesAreTransient ==
    last.op = "improve_pareto_norm_factors" =>
        /\ \A k \in 1..Len(last.seen) :
              Cardinality({j \in 1..Len(last.seen[k]) : last.seen[k][j] \in ProbeIds}) <= 1
        /\ Cardinality(IdSet(scens) \cap ProbeIds) <= 1
        /\ \A i \in 1..Len(last.probes) :
              /\ last.probes[i].parent = last.based_on
              /\ last.probes[i].params
                    = Put(PreObj(last.based_on).params, "k_PTO_alpha_", NumV(i - 1))
              /\ last.probes[i].vars = PreObj(last.based_on).vars
        /\ \A id \in IdSet(scens) :
              (PreHas(id) /\ getattr_scens(scens, id) = getattr_scens(pre.scens, id)) =>
                  /\ WithoutFactors(Obj(scens, heap, id)) = WithoutFactors(PreObj(id))
                  /\ Obj(scens, heap, id).vars = PreObj(id).vars


\* the names of the scenarios that the last call created, in order
CreatedNames == [i \in 1..Len(last.created) |-> last.created[i].sc.name]

\* a call of add_scens with the caller's list leaves that list as it was, and the next
\* call with the same list and nParetoPoints creates scenarios of the same names
KeptListStep ==
    (last'.op = "add_scens" /\ last'.kept) =>
        /\ my_vars' = my_vars
        /\ (/\ last.op = "add_scens" /\ last.kept /\ last.outcome = "ok"
            /\ last'.outcome = "ok" /\ last'.npp = last.npp)
           => CreatedNames' = CreatedNames

\* C27: add_scens does not modify the list of axes it is given: the caller's list is the
\* same after the call, and a second call with the same list and the same nParetoPoints
\* creates as many scenarios as the first, with the same names.
C27_CallerListUntouched == [][KeptListStep]_vars

\* the entities that the last sweep was to set
SweptNames == {last.axes[j].long : j \in Axes} \cup {"timelog_params_"}

\* C28: a scenario generated by add_scens has timelog_params_ = 0 and differs from the
\* base scenario, as it was before the call, in nothing but timelog_params_ and the
\* entities that the axes name: every other parameter and every other variable bound is
\* the base's; and no scenario object that was registered before the sweep, the base
\* included, is changed by it.
C28_SweepTouchesAxesOnly ==
    last.op = "add_scens" =>
        /\ \A i \in 1..Len(last.created) :
              LET sc == last.created[i].sc
                  base == PreObj(last.based_on)
              IN  /\ sc.params["timelog_params_"] = NumV(0)
                  /\ (DOMAIN sc.params) \ SweptNames = (DOMAIN base.params) \ SweptNames
                  /\ \A n \in (DOMAIN base.params) \ SweptNames : sc.params[n] = base.params[n]
                  /\ DOMAIN sc.vars = DOMAIN base.vars
                  /\ \A x \in (DOMAIN base.vars) \ SweptNames : sc.vars[x] = base.vars[x]
        /\ \A a \in Addrs(pre.scens) \cap DOMAIN heap : heap[a] = pre.heap[a]

\* a sweep over p created two scenarios from a base with the parameter q and the
\* variable x, next to another registered scenario: p differs, q and x are the base's
C28_Witness ==
    /\ SweepDone
    /\ Len(last.created) >= 2
    /\ HasId(scens, last.based_on)
    /\ Len(pre.scens) >= 2
    /\ SweptNames = {"p", "timelog_params_"}
    /\ {"p", "q"} \subseteq DOMAIN PreObj(last.based_on).params
    /\ "x" \in DOMAIN PreObj(last.based_on).vars
    /\ "timelog_params_" \notin DOMAIN Obj(scens, heap, last.based_on).params
    /\ \E i \in 1..Len(last.created) :
          last.created[i].sc.params["p"] # PreObj(last.based_on).params["p"]
=============================================================================
